---- MODULE Spec2Model ----
(***************************************************************************)
(* mmlib walls.c: conversion of the raw wall-sensor samples to distances,  *)
(* the wall detectors, the error signals and the side-sensor calibration.  *)
(*                                                                         *)
(* The C code computes in float (IEEE-754 binary32) and, where a double    *)
(* literal or constant takes part, in double (binary64).  Both arithmetics *)
(* are modelled bit-exactly with round-to-nearest-even (FLT_EVAL_METHOD 0, *)
(* no NaN or infinity: the raw-log values of the model are finite and      *)
(* non-zero).                                                              *)
(***************************************************************************)
EXTENDS Integers, Sequences, FiniteSets, TLC

(* IEEE-754 binary32 values are held as signed integers: the magnitude is the
   31 low bits of the float's bit pattern, the integer's sign is the float's
   sign.  Integer order is then the order of the floats.                     *)
FLT_MANT_DIG == 24
Pow2(k) == 2^k
FltHidden == Pow2(FLT_MANT_DIG - 1)
FAbs(x) == IF x < 0 THEN -x ELSE x
FNeg(x) == -x
FMant(x) == LET b == FAbs(x) IN
            IF b \div FltHidden = 0 THEN b ELSE FltHidden + (b % FltHidden)
FExp(x) == LET E == FAbs(x) \div FltHidden IN
           IF E = 0 THEN -149 ELSE E - 150
(* the number of bits of n, 0 <= n < 2^31 *)
BitLen(n) ==
    IF n < 32768
    THEN IF n < 128
         THEN IF n < 8
              THEN IF n < 2
                   THEN IF n < 1
                        THEN 0
                        ELSE 1
                   ELSE IF n < 4
                        THEN 2
                        ELSE 3
              ELSE IF n < 32
                   THEN IF n < 16
                        THEN 4
                        ELSE 5
                   ELSE IF n < 64
                        THEN 6
                        ELSE 7
         ELSE IF n < 2048
              THEN IF n < 512
                   THEN IF n < 256
                        THEN 8
                        ELSE 9
                   ELSE IF n < 1024
                        THEN 10
                        ELSE 11
              ELSE IF n < 8192
                   THEN IF n < 4096
                        THEN 12
                        ELSE 13
                   ELSE IF n < 16384
                        THEN 14
                        ELSE 15
    ELSE IF n < 8388608
         THEN IF n < 524288
              THEN IF n < 131072
                   THEN IF n < 65536
                        THEN 16
                        ELSE 17
                   ELSE IF n < 262144
                        THEN 18
                        ELSE 19
              ELSE IF n < 2097152
                   THEN IF n < 1048576
                        THEN 20
                        ELSE 21
                   ELSE IF n < 4194304
                        THEN 22
                        ELSE 23
         ELSE IF n < 134217728
              THEN IF n < 33554432
                   THEN IF n < 16777216
                        THEN 24
                        ELSE 25
                   ELSE IF n < 67108864
                        THEN 26
                        ELSE 27
              ELSE IF n < 536870912
                   THEN IF n < 268435456
                        THEN 28
                        ELSE 29
                   ELSE IF n < 1073741824
                        THEN 30
                        ELSE 31
Max(a, b) == IF a > b THEN a ELSE b
(* q + r / (2 * h) rounded to nearest, ties to even *)
RoundHalfEven(q, r, h) == IF r > h \/ (r = h /\ q % 2 = 1) THEN q + 1 ELSE q
(* n / 2^k rounded to nearest, ties to even *)
FRoundShift(n, k) ==
    IF k <= 0 THEN n * Pow2(-k)
    ELSE IF k >= 31 THEN 0
    ELSE RoundHalfEven(n \div Pow2(k), n % Pow2(k), Pow2(k - 1))
FBits(m, e) == IF m >= FltHidden THEN (e + 150) * FltHidden + (m - FltHidden) ELSE m
FSigned(neg, b) == IF neg THEN -b ELSE b
(* the float of mantissa m <= 2^24 and exponent e *)
FPack(neg, m, e) ==
    FSigned(neg, IF m = 2 * FltHidden THEN FBits(FltHidden, e + 1) ELSE FBits(m, e))
FRoundK(neg, n, e, k) == FPack(neg, FRoundShift(n, k), e + k)
(* Round-to-nearest-even of n * 2^e to binary32; an odd low bit of n stands
   for any non-zero tail below it.                                        *)
FRound(neg, n, e) ==
    IF n = 0 THEN 0
    ELSE FRoundK(neg, n, e, Max(BitLen(n) - FLT_MANT_DIG, -149 - e))
(* c with a low bit set when a dropped bit was set *)
Sticky(c, st) == IF st /\ c % 2 = 0 THEN c + 1 ELSE c
ShrSticky(c, d) ==
    IF d >= 31 THEN Sticky(0, TRUE) ELSE Sticky(c \div Pow2(d), c % Pow2(d) # 0)
(* |a| >= |c| > 0: six guard bits and a sticky bit *)
FAddOrdered(a, c) ==
    FRound(a < 0,
           IF (a < 0) = (c < 0)
           THEN FMant(a) * 64 + ShrSticky(FMant(c) * 64, FExp(a) - FExp(c))
           ELSE FMant(a) * 64 - ShrSticky(FMant(c) * 64, FExp(a) - FExp(c)),
           FExp(a) - 6)
FAdd(x, y) ==
    IF x = 0 THEN y ELSE IF y = 0 THEN x
    ELSE IF FAbs(y) > FAbs(x) THEN FAddOrdered(y, x) ELSE FAddOrdered(x, y)
FSub(x, y) == FAdd(x, FNeg(y))
(* long division in base 128: k more digits of the quotient of r / d *)
RECURSIVE DivStep(_, _, _, _)
DivStep(q, r, d, k) ==
    IF k = 0 THEN <<q, r>>
    ELSE DivStep(128 * q + (128 * r) \div d, (128 * r) % d, d, k - 1)
(* the shift that brings the leading bit of m to position FLT_MANT_DIG-1 *)
NormShift(m) == FLT_MANT_DIG - BitLen(m)
FDivQuot(neg, qr, e) == FRound(neg, 2 * qr[1] + (IF qr[2] # 0 THEN 1 ELSE 0), e)
FDivMant(neg, mx, my, e) == FDivQuot(neg, DivStep(mx \div my, mx % my, my, 4), e)
FDivNorm(x, y, sx, sy) ==
    FDivMant((x < 0) # (y < 0), FMant(x) * Pow2(sx), FMant(y) * Pow2(sy),
             (FExp(x) - sx) - (FExp(y) - sy) - 29)
FDiv(x, y) ==
    IF x = 0 THEN 0
    ELSE FDivNorm(x, y, NormShift(FMant(x)), NormShift(FMant(y)))

(* IEEE-754 binary64 values, and the exact intermediate results of the double
   operations, are held as records [neg, hi, lo, e] of value
   (-1)^neg * (hi * 2^30 + lo) * 2^e with hi, lo < 2^30.                    *)
Limb == Pow2(30)
DBL_MANT_DIG == 53
WZero == [neg |-> FALSE, hi |-> 0, lo |-> 0, e |-> 0]
WIsZero(w) == w.hi = 0 /\ w.lo = 0
WNeg(w) == IF WIsZero(w) THEN w ELSE [w EXCEPT !.neg = ~w.neg]
WBitLen(w) == IF w.hi > 0 THEN 30 + BitLen(w.hi) ELSE BitLen(w.lo)
(* the float x converted to double: exact *)
FToD(x) == IF x = 0 THEN WZero
           ELSE [neg |-> x < 0, hi |-> 0, lo |-> FMant(x), e |-> FExp(x)]
(* magnitude shifted left by s bits (the caller keeps it below 2^60) *)
WShl(w, s) ==
    IF s = 0 THEN w
    ELSE IF s >= 30 THEN [w EXCEPT !.hi = w.lo * Pow2(s - 30), !.lo = 0, !.e = w.e - s]
    ELSE [w EXCEPT !.hi = w.hi * Pow2(s) + w.lo \div Pow2(30 - s),
                   !.lo = (w.lo % Pow2(30 - s)) * Pow2(s), !.e = w.e - s]
(* magnitude shifted right by s bits; st: some dropped bit was set *)
WShr(w, s) ==
    IF s = 0 THEN [w |-> w, st |-> FALSE]
    ELSE IF s >= 60 THEN [w |-> [w EXCEPT !.hi = 0, !.lo = 0, !.e = w.e + s],
                          st |-> ~WIsZero(w)]
    ELSE IF s >= 30 THEN
         [w |-> [w EXCEPT !.hi = 0, !.lo = w.hi \div Pow2(s - 30), !.e = w.e + s],
          st |-> (w.hi % Pow2(s - 30) # 0) \/ (w.lo # 0)]
    ELSE [w |-> [w EXCEPT !.hi = w.hi \div Pow2(s),
                          !.lo = (w.hi % Pow2(s)) * Pow2(30 - s) + w.lo \div Pow2(s),
                          !.e = w.e + s],
          st |-> w.lo % Pow2(s) # 0]
WInc(w) == IF w.lo + 1 = Limb THEN [w EXCEPT !.hi = w.hi + 1, !.lo = 0]
           ELSE [w EXCEPT !.lo = w.lo + 1]
WMagLess(a, b) == a.hi < b.hi \/ (a.hi = b.hi /\ a.lo < b.lo)
WCarry(neg, hi, lo, e) ==
    IF hi = 0 /\ lo = 0 THEN WZero
    ELSE IF lo < 0 THEN [neg |-> neg, hi |-> hi - 1, lo |-> lo + Limb, e |-> e]
    ELSE IF lo >= Limb THEN [neg |-> neg, hi |-> hi + 1, lo |-> lo - Limb, e |-> e]
    ELSE [neg |-> neg, hi |-> hi, lo |-> lo, e |-> e]
WAddAligned(x, y) ==
    IF x.neg = y.neg THEN WCarry(x.neg, x.hi + y.hi, x.lo + y.lo, x.e)
    ELSE WCarry(x.neg, x.hi - y.hi, x.lo - y.lo, x.e)
WSticky(sh) == IF sh.st /\ sh.w.lo % 2 = 0 THEN WInc(sh.w) ELSE sh.w
WAddOrdered(x, y) == WAddAligned(x, WSticky(WShr(y, x.e - y.e)))
WAddNorm(na, nb) ==
    IF nb.e > na.e \/ (nb.e = na.e /\ WMagLess(na, nb))
    THEN WAddOrdered(nb, na) ELSE WAddOrdered(na, nb)
(* a + b, the larger operand scaled to 59 bits and the smaller aligned to it
   with a sticky low bit: exact, or exact above a non-zero tail.           *)
WAdd(a, b) ==
    IF WIsZero(a) THEN b ELSE IF WIsZero(b) THEN a
    ELSE WAddNorm(WShl(a, 59 - WBitLen(a)), WShl(b, 59 - WBitLen(b)))
WRoundUp(pst, q) == IF q.st /\ (pst \/ q.w.lo % 2 = 1) THEN WInc(q.w) ELSE q.w
WRoundHalf(p) == WRoundUp(p.st, WShr(p.w, 1))
(* the magnitude with its k low bits rounded away, to nearest, ties to even *)
WRoundAt(w, k) == IF k <= 0 THEN w ELSE WRoundHalf(WShr(w, k - 1))
DRound(w) == IF WIsZero(w) THEN WZero ELSE WRoundAt(w, WBitLen(w) - DBL_MANT_DIG)
DAdd(a, b) == DRound(WAdd(a, b))
DSub(a, b) == DRound(WAdd(a, WNeg(b)))
WIsNegative(w) == w.neg /\ ~WIsZero(w)
DLess(a, b) == WIsNegative(WAdd(a, WNeg(b)))
DToFRounded(neg, r) == FRound(neg, r.lo, r.e)
(* the double w converted to float *)
DToF(w) ==
    IF WIsZero(w) THEN 0
    ELSE DToFRounded(w.neg, WRoundAt(w, Max(Max(WBitLen(w) - FLT_MANT_DIG, -149 - w.e), 0)))

(***************************************************************************)
(* Sensors, calibration curves and thresholds.                             *)
(***************************************************************************)
SENSOR_FRONT_LEFT == 0
SENSOR_FRONT_RIGHT == 1
SENSOR_SIDE_LEFT == 2
SENSOR_SIDE_RIGHT == 3
SENSORS_WALL_MAX == 4
Sensors == 0 .. (SENSORS_WALL_MAX - 1)
SideSensors == {SENSOR_SIDE_LEFT, SENSOR_SIDE_RIGHT}

SENSOR_SIDE_LEFT_A == 1077122433    \* 2.806f
SENSOR_SIDE_LEFT_B == 1049817514    \* 0.287f
SENSOR_SIDE_RIGHT_A == 1075113361   \* 2.327f
SENSOR_SIDE_RIGHT_B == 1047300932   \* 0.231f
SENSOR_FRONT_LEFT_A == 1153142473   \* 1500.462f
SENSOR_FRONT_LEFT_B == 1124779753   \* 138.777f
SENSOR_FRONT_RIGHT_A == 1152144204  \* 1378.603f
SENSOR_FRONT_RIGHT_B == 1123615113  \* 124.503f
sensors_calibration_a ==
    <<SENSOR_FRONT_LEFT_A, SENSOR_FRONT_RIGHT_A, SENSOR_SIDE_LEFT_A, SENSOR_SIDE_RIGHT_A>>
sensors_calibration_b ==
    <<SENSOR_FRONT_LEFT_B, SENSOR_FRONT_RIGHT_B, SENSOR_SIDE_LEFT_B, SENSOR_SIDE_RIGHT_B>>

SIDE_CALIBRATION_READINGS == 20
FSideCalibrationReadings == 1101004800   \* (float)SIDE_CALIBRATION_READINGS
(* double constants *)
DIAGONAL_MIN_DISTANCE == [neg |-> FALSE, hi |-> 8053063, lo |-> 730144440, e |-> -55]   \* 0.24
D0_1 == [neg |-> FALSE, hi |-> 6710886, lo |-> 429496730, e |-> -56]                    \* 0.1
D0_04 == [neg |-> FALSE, hi |-> 5368709, lo |-> 128849019, e |-> -57]                   \* 0.04
(* walls.h: the cell is 0.18 m, the corridor's middle 0.085 m from a wall *)
CELL_DIMENSION == [neg |-> FALSE, hi |-> 6039797, lo |-> 816043786, e |-> -55]          \* 0.18
MIDDLE_MAZE_DISTANCE == [neg |-> FALSE, hi |-> 5704253, lo |-> 472446403, e |-> -56]    \* 0.085
(* CELL_DIMENSION * 0.90 and CELL_DIMENSION * 1.5, as the compiler folds them *)
SIDE_WALL_DETECTION == [neg |-> FALSE, hi |-> 5435817, lo |-> 1056561955, e |-> -55]    \* 0.162
FRONT_WALL_DETECTION == [neg |-> FALSE, hi |-> 4529848, lo |-> 343597384, e |-> -54]    \* 0.27

(***************************************************************************)
(* The acquisition collaborator.  sensor_raw_log is given by its values on *)
(* the sample pairs the model presents (keyed by on - off); a scene is the *)
(* (on, off) pairs the four sensors give while the robot stands at one     *)
(* place.                                                                  *)
(***************************************************************************)
RawLogTable ==
    (4132 :> 1090861305) @@ (1708 :> 1089350865) @@ (987 :> 1088200321) @@
    (318 :> 1085825209) @@ (3949 :> 1090813835) @@ (1407 :> 1088944541) @@
    (1130 :> 1088485245) @@ (221 :> 1085064497) @@ (48848 :> 1093451360) @@
    (48659 :> 1093447288) @@ (48471 :> 1093443219) @@ (63209 :> 1093721606) @@
    (62930 :> 1093716961) @@ (62652 :> 1093712319)
sensor_raw_log(vOn, vOff) == RawLogTable[vOn - vOff]
\* sensor: front-left        front-right       side-left        side-right
\* metres:
Scenes == <<
    << <<48779, 120>>, <<63050, 120>>, <<1107, 120>>, <<1250, 120>> >>,  \* 0.25 0.26 0.12 0.10
    << <<48948, 100>>, <<62752, 100>>, <<4232, 100>>, <<321, 100>> >>,   \* 0.20 0.31 0.05 0.20
    << <<48938, 90>>,  <<63299, 90>>,  <<408, 90>>,   <<4039, 90>> >>,   \* 0.20 0.21 0.20 0.05
    << <<48581, 110>>, <<62762, 110>>, <<1818, 110>>, <<1517, 110>> >>,  \* 0.30 0.31 0.09 0.09
    << <<48789, 130>>, <<63339, 130>>, <<1838, 130>>, <<1260, 130>> >>   \* 0.25 0.21 0.09 0.10
    >>
sensor_adc_get_value_on(sc, s) == Scenes[sc][s + 1][1]
sensor_adc_get_value_off(sc, s) == Scenes[sc][s + 1][2]

(* side_sensors_calibration runs at most MaxCalibrations times; the ticks of
   the interleaved model sample the first IrqScenes scenes *)
MaxCalibrations == 2
IrqScenes == 2

VARIABLES
    distance,            \* static volatile float distance[SENSORS_WALL_MAX]
    calibration_factor,  \* static volatile float calibration_factor[SENSORS_WALL_MAX]
    adc,                 \* the scene the ADC samples (0: none yet)
    on, off,             \* update_distance_readings: the samples it read
    upd_pc, upd_i,       \* update_distance_readings: where it is, and its i
    pc,                  \* where the control loop is
    left_temp, right_temp,   \* side_sensors_calibration: the sums
    walls_readings,      \* read_walls: the snapshot being filled
    tmp,                 \* the distances an interrupted function read so far
    ret,                 \* what the control loop's latest call returned, until
                         \*   the next update starts
    ncal,                \* history: calibration runs so far
    since,               \* history: calibration runs since the last update
    base,                \* history: the side offsets at the last update
    centred              \* history: the side distance stems from the first
                         \*   update after a calibration run that itself came
                         \*   first after an update, or from a later update,
                         \*   all on the raw samples that run had seen

vars == <<distance, calibration_factor, adc, on, off, upd_pc, upd_i, pc,
          left_temp, right_temp, walls_readings, tmp, ret, ncal, since,
          base, centred>>
updVars == <<adc, on, off, upd_pc, upd_i>>
calVars == <<left_temp, right_temp>>
histVars == <<ncal, since, base, centred>>

NoWalls == [left |-> FALSE, front |-> FALSE, right |-> FALSE]
NoRet == [op |-> "none", val |-> 0, flag |-> FALSE, walls |-> NoWalls]
RetVal(name, v) == [op |-> name, val |-> v, flag |-> FALSE, walls |-> NoWalls]
RetFlag(name, f) == [op |-> name, val |-> 0, flag |-> f, walls |-> NoWalls]
RetWalls(w) == [op |-> "read_walls", val |-> 0, flag |-> FALSE, walls |-> w]

Init ==
    /\ distance = [s \in Sensors |-> 0]
    /\ calibration_factor = [s \in Sensors |-> 0]
    /\ adc = 0
    /\ on = [s \in Sensors |-> 0]
    /\ off = [s \in Sensors |-> 0]
    /\ upd_pc = "idle" /\ upd_i = 0
    /\ pc = "idle"
    /\ left_temp = 0 /\ right_temp = 0
    /\ walls_readings = NoWalls
    /\ tmp = <<>>
    /\ ret = NoRet
    /\ ncal = 0 /\ since = 0
    /\ base = [s \in SideSensors |-> 0]
    /\ centred = [s \in SideSensors |-> FALSE]

(***************************************************************************)
(* update_distance_readings                                                *)
(***************************************************************************)
(* lines 47-49: a / sensor_raw_log(on, off) - b, in float *)
Reading(s, vOn, vOff) ==
    FSub(FDiv(sensors_calibration_a[s + 1], sensor_raw_log(vOn, vOff)),
         sensors_calibration_b[s + 1])
(* faulty variants: the offset never subtracted; the offset added *)
CalibratedNone(s, d, cf) == d
CalibratedAdded(s, d, cf) == IF s \in SideSensors THEN FAdd(d, cf[s]) ELSE d
(* lines 50-51: distance[i] -= calibration_factor[i], for the side sensors *)
Calibrated(s, d, cf) == IF s \in SideSensors THEN FSub(d, cf[s]) ELSE d
(* faulty variant: the loop ends one sensor early *)
UpdatedSensorsShort == 0 .. (SENSORS_WALL_MAX - 2)
(* lines 44-52: the entries the loop writes *)
UpdatedSensors == Sensors

(* lines 44-52: the loop from sensor i on, for the samples of scene sc *)
RECURSIVE UpdateLoop(_, _, _, _)
UpdateLoop(d, cf, sc, i) ==
    IF i \notin UpdatedSensors THEN d
    ELSE UpdateLoop([d EXCEPT ![i] = Calibrated(i, Reading(i, sensor_adc_get_value_on(sc, i),
                                                           sensor_adc_get_value_off(sc, i)),
                                                cf)],
                    cf, sc, i + 1)

SameRaw(s) == on'[s] = on[s] /\ off'[s] = off[s]
(* the whole call, run to its end with nothing in between *)
update_distance_readings ==
    /\ upd_pc = "idle" /\ pc = "idle"
    /\ adc' \in 1 .. Len(Scenes)
    /\ on' = [s \in Sensors |->
                IF s \in UpdatedSensors THEN sensor_adc_get_value_on(adc', s) ELSE on[s]]
    /\ off' = [s \in Sensors |->
                IF s \in UpdatedSensors THEN sensor_adc_get_value_off(adc', s) ELSE off[s]]
    /\ distance' = UpdateLoop(distance, calibration_factor, adc', 0)
    /\ ret' = NoRet
    /\ since' = 0
    /\ base' = [s \in SideSensors |-> calibration_factor[s]]
    /\ centred' = [s \in SideSensors |->
                     SameRaw(s) /\ IF since > 0 THEN since = 1 ELSE centred[s]]
    /\ UNCHANGED <<calibration_factor, upd_pc, upd_i, pc, calVars, walls_readings,
                   tmp, ncal>>

(***************************************************************************)
(* The accessors, detectors and error functions, as functions of the       *)
(* values they read from distance[].                                       *)
(***************************************************************************)
(* float x compared with the double c *)
FLessD(x, c) == DLess(FToD(x), c)
FGreaterD(x, c) == DLess(c, FToD(x))
(* (float)(x - c), the subtraction in double *)
FSubD(x, c) == DToF(DSub(FToD(x), c))

(* faulty variants: the sign of the other side's error not tested; the
   symmetric case not negated *)
SideSensorsCloseErrorUnsigned(dl, dr) ==
    LET left_error == FSubD(dl, MIDDLE_MAZE_DISTANCE)
        right_error == FSubD(dr, MIDDLE_MAZE_DISTANCE)
    IN IF left_error > 0 THEN right_error
       ELSE IF right_error > 0 THEN FNeg(left_error)
       ELSE 0
SideSensorsCloseErrorMirrored(dl, dr) ==
    LET left_error == FSubD(dl, MIDDLE_MAZE_DISTANCE)
        right_error == FSubD(dr, MIDDLE_MAZE_DISTANCE)
    IN IF left_error > 0 /\ right_error < 0 THEN right_error
       ELSE IF right_error > 0 /\ left_error < 0 THEN left_error
       ELSE 0
(* lines 99-106 *)
SideSensorsCloseError(dl, dr) ==
    LET left_error == FSubD(dl, MIDDLE_MAZE_DISTANCE)
        right_error == FSubD(dr, MIDDLE_MAZE_DISTANCE)
    IN IF left_error > 0 /\ right_error < 0 THEN right_error
       ELSE IF right_error > 0 /\ left_error < 0 THEN FNeg(left_error)
       ELSE 0
(* lines 120-127 *)
SideSensorsFarError(dl, dr) ==
    LET left_error == FSubD(dl, MIDDLE_MAZE_DISTANCE)
        right_error == FSubD(dr, MIDDLE_MAZE_DISTANCE)
    IN IF FGreaterD(left_error, D0_1) /\ FLessD(right_error, D0_04) THEN right_error
       ELSE IF FGreaterD(right_error, D0_1) /\ FLessD(left_error, D0_04)
            THEN FNeg(left_error)
       ELSE 0
(* lines 182 and 191 *)
SideWallDetected(d) == FLessD(d, SIDE_WALL_DETECTION)
(* faulty variant: || for && *)
FrontWallDetectedEither(dfl, dfr) ==
    FLessD(dfl, FRONT_WALL_DETECTION) \/ FLessD(dfr, FRONT_WALL_DETECTION)
(* lines 200-201 *)
FrontWallDetected(dfl, dfr) ==
    FLessD(dfl, FRONT_WALL_DETECTION) /\ FLessD(dfr, FRONT_WALL_DETECTION)
(* faulty variant: the front wall not asked for *)
FrontSensorsErrorAlways(detected, dfl, dfr) == FSub(dfl, dfr)
(* lines 140-142: detected is front_wall_detection()'s answer, dfl and dfr
   the values read for the subtraction *)
FrontSensorsError(detected, dfl, dfr) == IF ~detected THEN 0 ELSE FSub(dfl, dfr)
(* faulty variant: the left error tested first *)
DiagonalSensorsErrorLeftFirst(dfl, dfr) ==
    LET left_error == FSubD(dfl, DIAGONAL_MIN_DISTANCE)
        right_error == FSubD(dfr, DIAGONAL_MIN_DISTANCE)
    IN IF left_error < 0 THEN FNeg(left_error)
       ELSE IF right_error < 0 THEN right_error
       ELSE 0
(* lines 157-164 *)
DiagonalSensorsError(dfl, dfr) ==
    LET left_error == FSubD(dfl, DIAGONAL_MIN_DISTANCE)
        right_error == FSubD(dfr, DIAGONAL_MIN_DISTANCE)
    IN IF right_error < 0 THEN right_error
       ELSE IF left_error < 0 THEN FNeg(left_error)
       ELSE 0
(* lines 172-174: the float sum, halved in double *)
FrontWallDistance(dfl, dfr) ==
    LET sum == FToD(FAdd(dfl, dfr)) IN DToF([sum EXCEPT !.e = sum.e - 1])

(***************************************************************************)
(* The control loop's calls, each run to its return with nothing in        *)
(* between.                                                                *)
(***************************************************************************)
Returns(r) ==
    /\ pc = "idle" /\ upd_pc = "idle"
    /\ ret' = r
    /\ UNCHANGED <<distance, calibration_factor, updVars, pc, calVars,
                   walls_readings, tmp, histVars>>

get_front_left_distance ==
    Returns(RetVal("get_front_left_distance", distance[SENSOR_FRONT_LEFT]))
get_front_right_distance ==
    Returns(RetVal("get_front_right_distance", distance[SENSOR_FRONT_RIGHT]))
get_side_left_distance ==
    Returns(RetVal("get_side_left_distance", distance[SENSOR_SIDE_LEFT]))
get_side_right_distance ==
    Returns(RetVal("get_side_right_distance", distance[SENSOR_SIDE_RIGHT]))
get_side_sensors_close_error ==
    Returns(RetVal("get_side_sensors_close_error",
                   SideSensorsCloseError(distance[SENSOR_SIDE_LEFT],
                                         distance[SENSOR_SIDE_RIGHT])))
get_side_sensors_far_error ==
    Returns(RetVal("get_side_sensors_far_error",
                   SideSensorsFarError(distance[SENSOR_SIDE_LEFT],
                                       distance[SENSOR_SIDE_RIGHT])))
get_front_sensors_error ==
    Returns(RetVal("get_front_sensors_error",
                   FrontSensorsError(FrontWallDetected(distance[SENSOR_FRONT_LEFT],
                                                       distance[SENSOR_FRONT_RIGHT]),
                                     distance[SENSOR_FRONT_LEFT],
                                     distance[SENSOR_FRONT_RIGHT])))
get_diagonal_sensors_error ==
    Returns(RetVal("get_diagonal_sensors_error",
                   DiagonalSensorsError(distance[SENSOR_FRONT_LEFT],
                                        distance[SENSOR_FRONT_RIGHT])))
get_front_wall_distance ==
    Returns(RetVal("get_front_wall_distance",
                   FrontWallDistance(distance[SENSOR_FRONT_LEFT],
                                     distance[SENSOR_FRONT_RIGHT])))
left_wall_detection ==
    Returns(RetFlag("left_wall_detection", SideWallDetected(distance[SENSOR_SIDE_LEFT])))
right_wall_detection ==
    Returns(RetFlag("right_wall_detection", SideWallDetected(distance[SENSOR_SIDE_RIGHT])))
front_wall_detection ==
    Returns(RetFlag("front_wall_detection",
                    FrontWallDetected(distance[SENSOR_FRONT_LEFT],
                                      distance[SENSOR_FRONT_RIGHT])))
read_walls ==
    Returns(RetWalls([left |-> SideWallDetected(distance[SENSOR_SIDE_LEFT]),
                      front |-> FrontWallDetected(distance[SENSOR_FRONT_LEFT],
                                                  distance[SENSOR_FRONT_RIGHT]),
                      right |-> SideWallDetected(distance[SENSOR_SIDE_RIGHT])]))

(***************************************************************************)
(* side_sensors_calibration                                                *)
(***************************************************************************)
(* lines 228-232: n more samples of the reading d added to temp *)
RECURSIVE SumReadings(_, _, _)
SumReadings(temp, d, n) ==
    IF n = 0 THEN temp ELSE SumReadings(FAdd(temp, d), d, n - 1)
(* faulty variant: = for += *)
NewCalibrationFactorStored(cf, temp) ==
    DToF(DSub(FToD(FDiv(temp, FSideCalibrationReadings)), MIDDLE_MAZE_DISTANCE))
(* lines 233-236: calibration_factor[s] += temp / SIDE_CALIBRATION_READINGS
                                           - MIDDLE_MAZE_DISTANCE          *)
NewCalibrationFactor(cf, temp) ==
    DToF(DAdd(FToD(cf),
              DSub(FToD(FDiv(temp, FSideCalibrationReadings)), MIDDLE_MAZE_DISTANCE)))
(* faulty variant: the new offsets applied to distance[] at once *)
side_sensors_calibration_applying ==
    /\ pc = "idle" /\ upd_pc = "idle"
    /\ ncal < MaxCalibrations
    /\ left_temp' = SumReadings(0, distance[SENSOR_SIDE_LEFT], SIDE_CALIBRATION_READINGS)
    /\ right_temp' = SumReadings(0, distance[SENSOR_SIDE_RIGHT], SIDE_CALIBRATION_READINGS)
    /\ calibration_factor' =
         [calibration_factor EXCEPT
            ![SENSOR_SIDE_LEFT] = NewCalibrationFactor(@, left_temp'),
            ![SENSOR_SIDE_RIGHT] = NewCalibrationFactor(@, right_temp')]
    /\ distance' =
         [distance EXCEPT
            ![SENSOR_SIDE_LEFT] = FSub(@, calibration_factor'[SENSOR_SIDE_LEFT]),
            ![SENSOR_SIDE_RIGHT] = FSub(@, calibration_factor'[SENSOR_SIDE_RIGHT])]
    /\ ncal' = ncal + 1
    /\ since' = since + 1
    /\ UNCHANGED <<updVars, pc, walls_readings, tmp, ret, base, centred>>
(* the whole call; no update runs while it waits between its samples *)
side_sensors_calibration ==
    /\ pc = "idle" /\ upd_pc = "idle"
    /\ ncal < MaxCalibrations
    /\ left_temp' = SumReadings(0, distance[SENSOR_SIDE_LEFT], SIDE_CALIBRATION_READINGS)
    /\ right_temp' = SumReadings(0, distance[SENSOR_SIDE_RIGHT], SIDE_CALIBRATION_READINGS)
    /\ calibration_factor' =
         [calibration_factor EXCEPT
            ![SENSOR_SIDE_LEFT] = NewCalibrationFactor(@, left_temp'),
            ![SENSOR_SIDE_RIGHT] = NewCalibrationFactor(@, right_temp')]
    /\ ncal' = ncal + 1
    /\ since' = since + 1
    /\ UNCHANGED <<distance, updVars, pc, walls_readings, tmp, ret, base, centred>>

Analyzer ==
    \/ get_front_left_distance \/ get_front_right_distance
    \/ get_side_left_distance \/ get_side_right_distance
    \/ get_side_sensors_close_error \/ get_side_sensors_far_error
    \/ get_front_sensors_error \/ get_diagonal_sensors_error
    \/ get_front_wall_distance
    \/ left_wall_detection \/ right_wall_detection \/ front_wall_detection
    \/ read_walls
Next == update_distance_readings \/ Analyzer \/ side_sensors_calibration
Spec == Init /\ [][Next]_vars

(***************************************************************************)
(* Interrupt interleaving: update_distance_readings runs one loop          *)
(* iteration at a time, read_walls and get_front_sensors_error one read of *)
(* distance[] at a time, and each may run between two steps of the other.  *)
(***************************************************************************)
update_enter ==
    /\ upd_pc = "idle"
    /\ adc' \in 1 .. IrqScenes
    /\ upd_pc' = "loop" /\ upd_i' = 0
    /\ ret' = NoRet
    /\ UNCHANGED <<distance, calibration_factor, on, off, pc, calVars,
                   walls_readings, tmp, histVars>>
(* lines 45-49 *)
update_convert ==
    /\ upd_pc = "loop" /\ upd_i \in UpdatedSensors
    /\ on' = [on EXCEPT ![upd_i] = sensor_adc_get_value_on(adc, upd_i)]
    /\ off' = [off EXCEPT ![upd_i] = sensor_adc_get_value_off(adc, upd_i)]
    /\ distance' = [distance EXCEPT ![upd_i] = Reading(upd_i, on'[upd_i], off'[upd_i])]
    /\ IF upd_i \in SideSensors
       THEN upd_pc' = "offset" /\ upd_i' = upd_i
       ELSE upd_pc' = "loop" /\ upd_i' = upd_i + 1
    /\ UNCHANGED <<calibration_factor, adc, pc, calVars, walls_readings, tmp,
                   ret, histVars>>
(* lines 50-51 *)
update_offset ==
    /\ upd_pc = "offset"
    /\ distance' = [distance EXCEPT
                      ![upd_i] = Calibrated(upd_i, @, calibration_factor)]
    /\ upd_pc' = "loop" /\ upd_i' = upd_i + 1
    /\ UNCHANGED <<calibration_factor, adc, on, off, pc, calVars,
                   walls_readings, tmp, ret, histVars>>
update_return ==
    /\ upd_pc = "loop" /\ upd_i \notin UpdatedSensors
    /\ upd_pc' = "idle"
    /\ UNCHANGED <<distance, calibration_factor, adc, on, off, upd_i, pc,
                   calVars, walls_readings, tmp, ret, histVars>>

(* line 213 *)
read_walls_left ==
    /\ pc = "idle"
    /\ walls_readings' =
         [NoWalls EXCEPT !.left = SideWallDetected(distance[SENSOR_SIDE_LEFT])]
    /\ pc' = "walls_front_left"
    /\ tmp' = <<>> /\ ret' = NoRet
    /\ UNCHANGED <<distance, calibration_factor, updVars, calVars, histVars>>
(* lines 214 and 200: the left operand of && *)
read_walls_front_left ==
    /\ pc = "walls_front_left"
    /\ IF FLessD(distance[SENSOR_FRONT_LEFT], FRONT_WALL_DETECTION)
       THEN pc' = "walls_front_right"
       ELSE pc' = "walls_right"
    /\ UNCHANGED <<distance, calibration_factor, updVars, calVars,
                   walls_readings, tmp, ret, histVars>>
(* lines 214 and 201: the right operand of && *)
read_walls_front_right ==
    /\ pc = "walls_front_right"
    /\ walls_readings' =
         [walls_readings EXCEPT
            !.front = FLessD(distance[SENSOR_FRONT_RIGHT], FRONT_WALL_DETECTION)]
    /\ pc' = "walls_right"
    /\ UNCHANGED <<distance, calibration_factor, updVars, calVars, tmp, ret,
                   histVars>>
(* lines 215-216 *)
read_walls_right ==
    /\ pc = "walls_right"
    /\ walls_readings' =
         [walls_readings EXCEPT
            !.right = SideWallDetected(distance[SENSOR_SIDE_RIGHT])]
    /\ ret' = RetWalls(walls_readings')
    /\ pc' = "idle"
    /\ UNCHANGED <<distance, calibration_factor, updVars, calVars, tmp, histVars>>

(* lines 140 and 200 *)
front_sensors_error_detect_left ==
    /\ pc = "idle"
    /\ tmp' = <<>>
    /\ IF FLessD(distance[SENSOR_FRONT_LEFT], FRONT_WALL_DETECTION)
       THEN pc' = "error_detect_right" /\ ret' = NoRet
       ELSE pc' = "idle"
            /\ ret' = RetVal("get_front_sensors_error", FrontSensorsError(FALSE, 0, 0))
    /\ UNCHANGED <<distance, calibration_factor, updVars, calVars,
                   walls_readings, histVars>>
(* lines 140 and 201 *)
front_sensors_error_detect_right ==
    /\ pc = "error_detect_right"
    /\ IF FLessD(distance[SENSOR_FRONT_RIGHT], FRONT_WALL_DETECTION)
       THEN pc' = "error_operands" /\ ret' = ret
       ELSE pc' = "idle"
            /\ ret' = RetVal("get_front_sensors_error", FrontSensorsError(FALSE, 0, 0))
    /\ UNCHANGED <<distance, calibration_factor, updVars, calVars,
                   walls_readings, tmp, histVars>>
(* line 142: one operand of the subtraction is read; C leaves the order open *)
front_sensors_error_operand ==
    /\ pc = "error_operands"
    /\ \E s \in {SENSOR_FRONT_LEFT, SENSOR_FRONT_RIGHT} : tmp' = <<s, distance[s]>>
    /\ pc' = "error_subtract"
    /\ UNCHANGED <<distance, calibration_factor, updVars, calVars,
                   walls_readings, ret, histVars>>
(* line 142: the other operand is read, the difference returned; tmp keeps
   the two operands *)
front_sensors_error_subtract ==
    /\ pc = "error_subtract"
    /\ tmp' = IF tmp[1] = SENSOR_FRONT_LEFT
              THEN <<tmp[2], distance[SENSOR_FRONT_RIGHT]>>
              ELSE <<distance[SENSOR_FRONT_LEFT], tmp[2]>>
    /\ ret' = RetVal("get_front_sensors_error", FrontSensorsError(TRUE, tmp'[1], tmp'[2]))
    /\ pc' = "idle"
    /\ UNCHANGED <<distance, calibration_factor, updVars, calVars,
                   walls_readings, histVars>>

NextIrq ==
    \/ update_enter \/ update_convert \/ update_offset \/ update_return
    \/ read_walls_left \/ read_walls_front_left \/ read_walls_front_right
    \/ read_walls_right
    \/ front_sensors_error_detect_left \/ front_sensors_error_detect_right
    \/ front_sensors_error_operand \/ front_sensors_error_subtract
SpecIrq == Init /\ [][NextIrq]_vars

(***************************************************************************)
(* Properties.                                                             *)
(***************************************************************************)
AccessorOf(s) ==
    <<"get_front_left_distance", "get_front_right_distance",
      "get_side_left_distance", "get_side_right_distance">>[s + 1]
(* a / sensor_raw_log(on, off) - b for the samples last read for sensor s *)
CurveValue(s, vOn, vOff) ==
    FSub(FDiv(<<SENSOR_FRONT_LEFT_A, SENSOR_FRONT_RIGHT_A,
                SENSOR_SIDE_LEFT_A, SENSOR_SIDE_RIGHT_A>>[s + 1],
              sensor_raw_log(vOn, vOff)),
         <<SENSOR_FRONT_LEFT_B, SENSOR_FRONT_RIGHT_B,
           SENSOR_SIDE_LEFT_B, SENSOR_SIDE_RIGHT_B>>[s + 1])
IsSide(s) == s = SENSOR_SIDE_LEFT \/ s = SENSOR_SIDE_RIGHT
WAbs(w) == [w EXCEPT !.neg = FALSE]
(* 2^-20 m: above the rounding error of a float mean of 20 side readings *)
RoundingSlack == [neg |-> FALSE, hi |-> 0, lo |-> 1, e |-> -20]
RECURSIVE Times(_, _)
Times(n, w) == IF n = 0 THEN WZero ELSE DAdd(w, Times(n - 1, w))
(* |a - b| <= n * RoundingSlack *)
CloseWithin(a, b, n) ==
    ~DLess(Times(n, RoundingSlack), WAbs(DSub(a, b)))
Close(a, b) == CloseWithin(a, b, 1)

(* C1: after a completed update on the samples (on_i, off_i), with no
   calibration since, the accessor of sensor i returns
   a_i / sensor_raw_log(on_i, off_i) - b_i, less the current offset of i for
   the two side sensors and with nothing subtracted for the front ones.     *)
C1_AccessorAfterUpdate ==
    \A s \in Sensors :
        (ret.op = AccessorOf(s) /\ adc # 0 /\ since = 0) =>
            ret.val = IF IsSide(s)
                      THEN FSub(CurveValue(s, on[s], off[s]), calibration_factor[s])
                      ELSE CurveValue(s, on[s], off[s])
(* a side accessor answered after an update that subtracted a non-zero offset *)
C1_Witness ==
    /\ ret.op = "get_side_left_distance" /\ adc # 0 /\ since = 0
    /\ calibration_factor[SENSOR_SIDE_LEFT] # 0

Scenario0_12 == [neg |-> FALSE, hi |-> 8053063, lo |-> 730144440, e |-> -56]
Scenario0_09 == [neg |-> FALSE, hi |-> 6039797, lo |-> 816043786, e |-> -56]
Scenario0_10 == [neg |-> FALSE, hi |-> 6710886, lo |-> 429496730, e |-> -56]
(* side-left 0.12 and side-right 0.10 (to the nearest reading), no offsets *)
SideScenario ==
    /\ adc # 0 /\ since = 0
    /\ calibration_factor[SENSOR_SIDE_LEFT] = 0
    /\ calibration_factor[SENSOR_SIDE_RIGHT] = 0
    /\ Close(FToD(distance[SENSOR_SIDE_LEFT]), Scenario0_12)
    /\ Close(FToD(distance[SENSOR_SIDE_RIGHT]), Scenario0_10)
(* C2 as stated: with side-left 0.12 and side-right 0.10 the close error is
   right_error, 0.015.                                                      *)
C2_ReturnsRightError ==
    (ret.op = "get_side_sensors_close_error" /\ SideScenario) =>
        ret.val = FSubD(distance[SENSOR_SIDE_RIGHT], MIDDLE_MAZE_DISTANCE)
(* C2 amended: with side-left 0.12 and side-right 0.10 both errors are
   positive and get_side_sensors_close_error returns 0.                     *)
C2_ReturnsZero ==
    (ret.op = "get_side_sensors_close_error" /\ SideScenario) => ret.val = 0
C2_Witness ==
    /\ ret.op = "get_side_sensors_close_error" /\ SideScenario
    /\ FSubD(distance[SENSOR_SIDE_LEFT], MIDDLE_MAZE_DISTANCE) > 0
    /\ FSubD(distance[SENSOR_SIDE_RIGHT], MIDDLE_MAZE_DISTANCE) > 0

LeftError == FSubD(distance[SENSOR_SIDE_LEFT], MIDDLE_MAZE_DISTANCE)
RightError == FSubD(distance[SENSOR_SIDE_RIGHT], MIDDLE_MAZE_DISTANCE)
(* C3: get_side_sensors_close_error returns 0 when the two side errors have
   the same sign or one of them is 0; right_error only when left_error > 0
   and right_error < 0; -left_error only when right_error > 0 and
   left_error < 0.                                                          *)
C3_CloseErrorCases ==
    ret.op = "get_side_sensors_close_error" =>
        /\ ((LeftError > 0 /\ RightError > 0) \/ (LeftError < 0 /\ RightError < 0)
            \/ LeftError = 0 \/ RightError = 0) => ret.val = 0
        /\ (LeftError > 0 /\ RightError < 0) => ret.val = RightError
        /\ (RightError > 0 /\ LeftError < 0) => ret.val = FNeg(LeftError)
        /\ ret.val # 0 =>
              \/ (LeftError > 0 /\ RightError < 0)
              \/ (RightError > 0 /\ LeftError < 0)
(* the symmetric case: the right side too far, the left too close *)
C3_Witness ==
    /\ ret.op = "get_side_sensors_close_error"
    /\ RightError > 0 /\ LeftError < 0 /\ ret.val > 0

FrontLeftBelow(c) == DLess(FToD(distance[SENSOR_FRONT_LEFT]), c)
FrontRightBelow(c) == DLess(FToD(distance[SENSOR_FRONT_RIGHT]), c)
(* C4: get_diagonal_sensors_error returns front-right - 0.24 (negative)
   whenever front-right < 0.24, also when front-left is below 0.24 too;
   0.24 - front-left (positive) only when front-right >= 0.24 and
   front-left < 0.24; otherwise 0.                                          *)
C4_DiagonalRightFirst ==
    ret.op = "get_diagonal_sensors_error" =>
        IF FrontRightBelow(DIAGONAL_MIN_DISTANCE)
        THEN /\ ret.val = FSubD(distance[SENSOR_FRONT_RIGHT], DIAGONAL_MIN_DISTANCE)
             /\ ret.val < 0
        ELSE IF FrontLeftBelow(DIAGONAL_MIN_DISTANCE)
        THEN /\ ret.val = DToF(DSub(DIAGONAL_MIN_DISTANCE,
                                    FToD(distance[SENSOR_FRONT_LEFT])))
             /\ ret.val > 0
        ELSE ret.val = 0
(* both front distances below 0.24 and distinct: the right one was reported *)
C4_Witness ==
    /\ ret.op = "get_diagonal_sensors_error"
    /\ FrontRightBelow(DIAGONAL_MIN_DISTANCE) /\ FrontLeftBelow(DIAGONAL_MIN_DISTANCE)
    /\ distance[SENSOR_FRONT_LEFT] # distance[SENSOR_FRONT_RIGHT]
    /\ ret.val = FSubD(distance[SENSOR_FRONT_RIGHT], DIAGONAL_MIN_DISTANCE)

(* C5: get_front_sensors_error returns 0 wherever front_wall_detection is
   false, and front-left - front-right wherever it is true.                 *)
C5_FrontErrorGated ==
    ret.op = "get_front_sensors_error" =>
        ret.val = IF FrontLeftBelow(FRONT_WALL_DETECTION)
                     /\ FrontRightBelow(FRONT_WALL_DETECTION)
                  THEN FSub(distance[SENSOR_FRONT_LEFT], distance[SENSOR_FRONT_RIGHT])
                  ELSE 0
(* no front wall, the front distances differ, and 0 was returned *)
C5_Witness ==
    /\ ret.op = "get_front_sensors_error" /\ adc # 0
    /\ ~(FrontLeftBelow(FRONT_WALL_DETECTION) /\ FrontRightBelow(FRONT_WALL_DETECTION))
    /\ distance[SENSOR_FRONT_LEFT] # distance[SENSOR_FRONT_RIGHT]
    /\ ret.val = 0

(* C6: read_walls returns left iff side-left < 0.90 x CELL_DIMENSION, right
   iff side-right < 0.90 x CELL_DIMENSION, front iff both front distances
   are < 1.5 x CELL_DIMENSION, the comparisons strict, on the distances at
   the call.                                                                *)
C6_ReadWallsSnapshot ==
    ret.op = "read_walls" =>
        /\ ret.walls.left <=> DLess(FToD(distance[SENSOR_SIDE_LEFT]), SIDE_WALL_DETECTION)
        /\ ret.walls.right <=> DLess(FToD(distance[SENSOR_SIDE_RIGHT]), SIDE_WALL_DETECTION)
        /\ ret.walls.front <=> (FrontLeftBelow(FRONT_WALL_DETECTION)
                                /\ FrontRightBelow(FRONT_WALL_DETECTION))
(* one front sensor under the threshold, the other not: no front wall *)
C6_Witness ==
    /\ ret.op = "read_walls"
    /\ FrontLeftBelow(FRONT_WALL_DETECTION) /\ ~FrontRightBelow(FRONT_WALL_DETECTION)
    /\ ~ret.walls.front /\ ret.walls.left /\ ~ret.walls.right

CalibrationRan == ncal' = ncal + 1
(* d - MIDDLE_MAZE_DISTANCE for the reading of side sensor s, in double *)
SideBias(s) == DSub(FToD(distance[s]), MIDDLE_MAZE_DISTANCE)
(* C7 as stated: one run of side_sensors_calibration over a constant side
   distance d adds exactly d - MIDDLE_MAZE_DISTANCE to the sensor's offset. *)
C7_AddsExactBias ==
    [][CalibrationRan =>
          \A s \in SideSensors :
              calibration_factor'[s] =
                  DToF(DAdd(FToD(calibration_factor[s]), SideBias(s)))]_vars
(* C7 amended: one run over a constant side distance d adds the float mean
   of the 20 samples less MIDDLE_MAZE_DISTANCE to the previous offset, which
   is d - MIDDLE_MAZE_DISTANCE to within rounding (2^-20); n runs with no
   update in between change the offset by n x (d - MIDDLE_MAZE_DISTANCE) to
   within n times that.                                                     *)
C7_AccumulatesBias ==
    /\ [][CalibrationRan =>
             \A s \in SideSensors :
                 Close(DSub(FToD(calibration_factor'[s]), FToD(calibration_factor[s])),
                       SideBias(s))]_vars
    /\ [](\A s \in SideSensors :
             since > 0 =>
                 CloseWithin(DSub(FToD(calibration_factor[s]), FToD(base[s])),
                             Times(since, SideBias(s)), since))
(* two runs in a row on side-left 0.09: the offset is twice the bias *)
C7_Witness ==
    /\ since = 2 /\ adc # 0
    /\ Close(FToD(distance[SENSOR_SIDE_LEFT]), Scenario0_09)
    /\ calibration_factor[SENSOR_SIDE_LEFT] # base[SENSOR_SIDE_LEFT]
    /\ calibration_factor[SENSOR_SIDE_LEFT] #
           DToF(DAdd(FToD(base[SENSOR_SIDE_LEFT]), SideBias(SENSOR_SIDE_LEFT)))

(* C8: only update_distance_readings changes distance[]; a function called
   again with no update in between, whatever else was called, returns what
   it returned before.                                                      *)
C8_OnlyUpdateWrites ==
    [][/\ distance' # distance => (ret' = NoRet /\ since' = 0 /\ adc' # 0)
       /\ CalibrationRan => distance' = distance
       /\ (ret.op # "none" /\ ret'.op = ret.op) => ret' = ret]_vars
(* a calibration ran over readings of an update, and an accessor answered
   with the reading the update had stored *)
C8_Witness ==
    /\ since > 0 /\ adc # 0
    /\ ret.op = "get_side_left_distance"
    /\ ret.val = FSub(CurveValue(SENSOR_SIDE_LEFT, on[SENSOR_SIDE_LEFT],
                                 off[SENSOR_SIDE_LEFT]),
                      base[SENSOR_SIDE_LEFT])
    /\ calibration_factor[SENSOR_SIDE_LEFT] # base[SENSOR_SIDE_LEFT]

(* the distance of sensor s for the samples of the tick sc *)
TickValue(sc, s) ==
    IF IsSide(s)
    THEN FSub(CurveValue(s, Scenes[sc][s + 1][1], Scenes[sc][s + 1][2]),
              calibration_factor[s])
    ELSE CurveValue(s, Scenes[sc][s + 1][1], Scenes[sc][s + 1][2])
(* C9: under interrupt interleaving, once an update has run to its end all
   four distance entries hold the values of the latest tick (the torn read
   of get_front_sensors_error is the witness).                              *)
C9_CompleteUpdateLatestTick ==
    (upd_pc = "idle" /\ adc # 0) => \A s \in Sensors : distance[s] = TickValue(adc, s)
(* get_front_sensors_error returned a non-zero front-left - front-right
   although no front wall is detected for the two distances it subtracted   *)
C9_Witness ==
    /\ ret.op = "get_front_sensors_error" /\ pc = "idle" /\ Len(tmp) = 2
    /\ ret.val # 0 /\ ret.val = FSub(tmp[1], tmp[2])
    /\ ~(DLess(FToD(tmp[1]), FRONT_WALL_DETECTION)
         /\ DLess(FToD(tmp[2]), FRONT_WALL_DETECTION))

FirstUpdateAfterCalibration(s) ==
    since > 0 /\ since' = 0 /\ on'[s] = on[s] /\ off'[s] = off[s]
(* C10 as stated: with the raw samples unchanged, the first update after a
   calibration sets the side distance to exactly MIDDLE_MAZE_DISTANCE.      *)
C10_UpdateCentresExactly ==
    [][\A s \in SideSensors :
          FirstUpdateAfterCalibration(s) =>
              distance'[s] = DToF(MIDDLE_MAZE_DISTANCE)]_vars
(* C10 amended: with the raw samples unchanged, the first update after a
   calibration that itself ran on the readings of the latest update sets the
   side distance to MIDDLE_MAZE_DISTANCE to within rounding (2^-20), and a
   further calibration after that update changes the offset by no more than
   that; the offsets of front-left and front-right are 0 in every state.    *)
C10_UpdateCentres ==
    /\ [](\A s \in SideSensors :
             (centred[s] /\ since = 0) =>
                 Close(FToD(distance[s]), MIDDLE_MAZE_DISTANCE))
    /\ [][\A s \in SideSensors :
             (CalibrationRan /\ centred[s] /\ since = 0) =>
                 Close(FToD(calibration_factor'[s]), FToD(calibration_factor[s]))]_vars
    /\ [](calibration_factor[SENSOR_FRONT_LEFT] = 0
          /\ calibration_factor[SENSOR_FRONT_RIGHT] = 0)
(* a second calibration ran on a centred side-left reading, the offset not 0 *)
C10_Witness ==
    /\ centred[SENSOR_SIDE_LEFT] /\ since = 1 /\ ncal = 2 /\ adc # 0
    /\ calibration_factor[SENSOR_SIDE_LEFT] # 0
    /\ ~Close(FToD(calibration_factor[SENSOR_SIDE_LEFT]), WZero)
    /\ Close(FToD(distance[SENSOR_SIDE_LEFT]), MIDDLE_MAZE_DISTANCE)
====
